---- MODULE Spec2Model ----
(***************************************************************************)
(* Model of AbstractDevice (src/src/device-base.ts): connection            *)
(* lifecycle, keep-alive timer, connectivity handlers and the send /       *)
(* sendWithResponse retry path.                                            *)
(*                                                                         *)
(* JavaScript runs one continuation at a time, so one step of the model    *)
(* is the completion of one awaited transport operation (or one            *)
(* synchronous call, or one timer tick) together with everything the       *)
(* code runs until the next await.  A chain is a sequence of pending async *)
(* calls, kept as a stack of frames; the top frame is the one waiting on   *)
(* the transport.                                                          *)
(*                                                                         *)
(* TcpSocket and the concrete devices (loadCurrentState, setPowerOn) are   *)
(* not part of device-base.ts; they follow the specification's Transport   *)
(* contract and Device Facade description.                                 *)
(***************************************************************************)
EXTENDS Integers, Sequences, FiniteSets, Bags, TLC

\* ------------------------------------------------------------------ bounds
\* async calls (frames of all chains together) that may be pending at once
MaxFrames == 8
\* intervals that may be active at once
MaxTimers == 2
\* keep-alive round-trips that may be in flight at once
MaxKA == 1
\* registered connection handlers
MaxHandlers == 2
\* bytes of a decrypted response
MaxLen == 4
\* Math.random() is k / (RandomGrain * 3000000) for an integer k
RandomGrain == 2
\* how many of the smallest and of the largest values of k are tried
MaxEdge == 2

\* ------------------------------------------------------------------ values
HandlerIds == {"h1", "h2"}
Events == {"CONNECTION_STATE_CHANGED", "OTHER"}
PowerValues == {"true", "false"}
Undefined == "undefined"
\* enum Model, lines 8-20
Models == {"T1201", "T1202", "T1203", "T1211", "T1011", "T1012", "T1013"}
\* the constructor takes `model: Model | string` and an optional name
ModelArgs == Models \cup {"T9999"}
NameArgs == {Undefined, "", "Desk Lamp"}
NoSocket == "none"
NoError == "none"
\* a value that may be missing is a sequence of at most one element
None == <<>>
Some(v) == <<v>>
\* byte values of a decrypted response, and the responses tried
Bytes == {0, 1, 255}
Buffers == UNION {[1..n -> Bytes] : n \in 0..MaxLen}
\* getSequence(), line 287
SequenceRange == 3000000
RandomSamples ==
    LET top == RandomGrain * SequenceRange - 1
    IN (0..MaxEdge) \cup ((top - MaxEdge)..top)

VARIABLES
    model,                    \* this.model
    name,                     \* this.name
    deviceType,               \* this.deviceType
    socket,                   \* this.socket: NoSocket until it is created
    nameArg,                  \* the name the constructor was called with
    thrown,                   \* the error the last call threw, or NoError
    packet,                   \* Some(the request getSequence() built)
    decrypted,                \* Some(the decrypted response of the exchange)
    serializedPacket,         \* Some(the bytes handed to deserializeBinary)
    deserializer,             \* the schema whose deserializeBinary was called
    connected,                \* socket.connected
    keepAliveInterval,        \* this.keepAliveInterval: "set" or Undefined
    timers,                   \* number of intervals that are active
    onConnectionEventHandler, \* this.onConnectionEventHandler
    power,                    \* this.power
    caller,                   \* the caller's chain of calls: [who, stack,
                              \* log, res, fin]; log and fin (the calls the
                              \* last step finished) are kept for one step
                              \* after the chain ended
    pings,                    \* bag of the chains started by interval ticks
    disc,                     \* disconnect(): "idle" or "closing"
    delivered,                \* handler -> invocations made by the last step
    lastEvent,                \* value the last step passed to the handlers
    live,                     \* registrations made with no disconnect pending since
    dead,                     \* handlers dropped by a completed disconnect
    discDone,                 \* "yes": a disconnect() called with no foreground
                              \* call pending has completed and connect() was
                              \* not called since; "pending": it is closing
    loaded,                   \* some loadCurrentState() has succeeded
    mutated,                  \* some setPowerOn() has succeeded
    ipo,                      \* what isPowerOn() gave if the last step called it
    closed                    \* a disconnect() has closed the open socket, with
                              \* no open of it pending; the caller has called
                              \* nothing and connect() was not called since

\* the object as the constructor leaves it
objVars == <<model, name, deviceType, socket, nameArg>>
\* what changes while the device is used
runVars == <<connected, keepAliveInterval, timers, onConnectionEventHandler,
             power, caller, pings, disc, delivered, lastEvent, live, dead,
             discDone, loaded, mutated, ipo, closed>>
\* what the constructor and the pure helpers decide
\* the last request / response exchange
wireVars == <<packet, decrypted, serializedPacket, deserializer>>
pureVars == <<objVars, thrown, wireVars>>
vars == <<pureVars, runVars>>

\* ----------------------------------------------------------------- helpers
Last(s) == s[Len(s)]
Front(s) == SubSeq(s, 1, Len(s) - 1)
Range(s) == {s[i] : i \in 1..Len(s)}
Count(s, x) == Cardinality({i \in 1..Len(s) : s[i] = x})

Fr(fn, pc, start, arg, before) ==
    [fn |-> fn, pc |-> pc, start |-> start, arg |-> arg, before |-> before]
Ev(e, ok, at, d) == [e |-> e, ok |-> ok, at |-> at, d |-> d]
Summary(f, ok, d, end) ==
    [fn |-> f.fn, ok |-> ok, start |-> f.start, end |-> end, d |-> d,
     before |-> f.before, arg |-> f.arg]

SendFns == {"sendPacket", "sendPacketWithResponse"}
Chain(who, stk, lg, res, fin) ==
    [who |-> who, stack |-> stk, log |-> lg, res |-> res, fin |-> fin]
IdleCaller == Chain("caller", <<>>, <<>>, "none", {})
Pings == BagToSet(pings)
Chains == {caller} \cup Pings

Awaiting(t, fns, pcs) ==
    /\ t.stack # <<>>
    /\ Last(t.stack).fn \in fns
    /\ Last(t.stack).pc \in pcs
WriteInFlight(t) == Awaiting(t, SendFns, {"try", "retry"})
OpenInFlight(t) == Awaiting(t, {"connect"}, {"open"})

\* ------------------------------------------------- transport (TcpSocket)
\* open(host, port) -> connected | TransportError
SocketConnect(c, ok) == IF ok THEN TRUE ELSE c
\* close()
SocketDisconnect(c) == FALSE
\* write(bytes) / writeAndAwaitReply(bytes) can only succeed on an open link
SocketCanSend(c) == c

\* --------------------------------------------------------- AbstractDevice
\* a getTypeForModel() that files unknown models under the light bulbs
GetTypeForModelLax(m) ==
    CASE m \in {"T1201", "T1202", "T1203"} -> "POWER_PLUG"
      [] m = "T1211" -> "SWITCH"
      [] OTHER -> "LIGHT_BULB"
\* getTypeForModel(), lines 28-46
UnknownModel == "Error: Unknown device model"
GetTypeForModel(m) ==
    CASE m \in {"T1201", "T1202", "T1203"} -> "POWER_PLUG"
      [] m = "T1211" -> "SWITCH"
      [] m \in {"T1011", "T1012", "T1013"} -> "LIGHT_BULB"
      [] OTHER -> UnknownModel

\* `if (name)`, line 120: undefined and the empty string are falsy
Truthy(nm) == nm \notin {Undefined, ""}
\* the switch of lines 123-137
DefaultName(dt) ==
    CASE dt = "LIGHT_BULB" -> "Unnamed Light Bulb"
      [] dt = "SWITCH" -> "Unnamed Switch"
      [] dt = "POWER_PLUG" -> "Unnamed Power Plug"
      [] OTHER -> "Unknown Device"

\* constructor, lines 114-147: the fields of `this` in the order the
\* statements assign them; a throw leaves the object unfinished
New(m, nm) ==
    LET this0 == [model |-> Undefined, name |-> Undefined,
                  deviceType |-> Undefined, socket |-> NoSocket,
                  thrown |-> NoError]
        \* line 117
        this1 == [this0 EXCEPT !.model = m]
        \* lines 120-138 read this.deviceType as it is at that point
        this2 == [this1 EXCEPT !.name = IF Truthy(nm) THEN nm
                                        ELSE DefaultName(this1.deviceType)]
        \* line 139
        type == GetTypeForModel(m)
    IN IF type = UnknownModel
       THEN [this2 EXCEPT !.thrown = type]
       \* lines 139-146
       ELSE [this2 EXCEPT !.deviceType = type, !.socket = "TcpSocket"]

\* constructor, lines 141-146: the socket callback calls every handler once
\* per entry of the list, with the new state
NotifyHandlers(handlers, c) == [h \in HandlerIds |-> Count(handlers, h)]

\* on(), lines 153-161
On(handlers, event, h) ==
    IF event = "CONNECTION_STATE_CHANGED" THEN Append(handlers, h) ELSE handlers

\* isWhiteLightBulb() without the T1011
IsWhiteLightBulbOnly1012(m) == m \in {"T1012"}
\* isWhiteLightBulb(), lines 48-50
IsWhiteLightBulb(m) == m \in {"T1011", "T1012"}
\* isPlugOrSwitch() without the switch
IsPlugOrSwitchNoSwitch(m) == m \in {"T1201", "T1202", "T1203"}
\* isPlugOrSwitch(), lines 52-54
IsPlugOrSwitch(m) == m \in {"T1201", "T1202", "T1203", "T1211"}

\* Buffer.slice(a, b) for a, b >= 0: both ends are clamped to the length
Min(a, b) == IF a < b THEN a ELSE b
Slice(buf, a, b) ==
    LET lo == Min(a, Len(buf))
        hi == Min(b, Len(buf))
    IN IF hi <= lo THEN <<>> ELSE SubSeq(buf, lo + 1, hi)
\* bufferpack.unpack('<H', buf): undefined when buf is shorter than the format
Unpack(buf) == IF Len(buf) < 2 THEN None ELSE <<buf[1] + 256 * buf[2]>>

\* a framing that takes packetLength as the end of the slice
SerializedPacketShort(buf, packetLength) == Slice(buf, 2, packetLength)
\* line 264
SerializedPacket(buf, packetLength) == Slice(buf, 2, packetLength + 2)

\* a dispatch that decodes everything as T1012Packet
DeserializerWhite(m) == "T1012Packet"
\* lines 266-280
UnableToDeserialize == "Error: Unable to deserialize response"
Deserializer(m) ==
    IF IsWhiteLightBulb(m) THEN "T1012Packet"
    ELSE IF m = "T1013" THEN "T1013Packet"
    ELSE IF IsPlugOrSwitch(m) THEN "T1201Packet"
    ELSE UnableToDeserialize

\* sendPacketWithResponse(), lines 259-280, once the response is there
TypeError == "TypeError"
Decode(m, buf) ==
    LET unpacked == Unpack(Slice(buf, 0, 2))
    IN IF unpacked = None
       \* line 263: `[0]` of undefined
       THEN [thrown |-> TypeError, serializedPacket |-> None,
             deserializer |-> Undefined]
       ELSE LET packetLength == unpacked[1]
                with == Deserializer(m)
            IN IF with = UnableToDeserialize
               THEN [thrown |-> with, serializedPacket |-> None,
                     deserializer |-> Undefined]
               ELSE [thrown |-> NoError,
                     serializedPacket |->
                         Some(SerializedPacket(buf, packetLength)),
                     deserializer |-> with]

\* Math.round(n / d) for n >= 0, d > 0
MathRound(n, d) == (2 * n + d) \div (2 * d)
\* a sequence number that starts at 1
SequenceFromOne(k) == MathRound(k, RandomGrain) + 1
\* line 287: Math.round(Math.random() * 3000000), where Math.random() is
\* k / (RandomGrain * 3000000), so that the product is k / RandomGrain
Sequence(k) == MathRound(k, RandomGrain)
\* getSequence(), lines 286-292
GetSequencePacket(k) ==
    [schema |-> "T1012Packet", sequence |-> Sequence(k), ping |-> 0]

\* connect(), lines 167-180, after `await this.socket.connect()` settled:
\* a rejected open rejects connect(); otherwise the interval is created and
\* loadCurrentState() is called.  n is the length of the chain's log.
LoadCurrentState(n) ==
    << Fr("loadCurrentState", "exchange", n, "-", "-"),
       Fr("sendPacketWithResponse", "try", n, "-", "-") >>
ConnectOnOpen(f, ok, n) ==
    IF ok
    THEN [timer |-> TRUE,
          frames |-> <<[f EXCEPT !.pc = "load"]>> \o LoadCurrentState(n)]
    ELSE [timer |-> FALSE, frames |-> <<>>]
\* a connect() that swallows the rejection of loadCurrentState()
ConnectOnLoadIgnored(ok) == TRUE
\* connect(), line 179: `return await this.loadCurrentState()`
ConnectOnLoad(ok) == ok

\* disconnect(), lines 187-190
DisconnectTimers(kai, tm) == IF kai # Undefined THEN tm - 1 ELSE tm
DisconnectInterval(kai) == Undefined
\* a disconnect() that forgets the cached power
DisconnectPowerCleared(pw) == Undefined
\* disconnect(), lines 182-192, has no assignment to this.power
DisconnectPower(pw) == pw
\* a disconnect() that keeps the handlers
DisconnectHandlersKept(handlers) == handlers
\* disconnect(), line 191
DisconnectHandlers(handlers) == <<>>

\* an isPowerOn() that reports an unknown power as off
IsPowerOnCoerced(pw) == IF pw = Undefined THEN "false" ELSE pw
\* isPowerOn(), lines 197-205
IsPowerOn(pw) == IF pw = Undefined THEN "err" ELSE pw

\* sendPacket() lines 228-231 and sendPacketWithResponse() lines 247-250:
\* the catch branch calls connect()
Connect(n) == << Fr("connect", "open", n, "-", "-") >>
\* a catch branch that re-sends without reconnecting
SendCatchNoReconnect(f, n) == <<[f EXCEPT !.pc = "retry"]>>
SendCatch(f, n) == <<[f EXCEPT !.pc = "catch"]>> \o Connect(n)
\* lines 233-235 and 252-254: after connect() resolved the packet is re-sent
SendAfterConnect(f, ok) ==
    IF ok THEN <<[f EXCEPT !.pc = "retry"]>> ELSE <<>>

\* getSequence(), lines 283-299
GetSequence(n) ==
    << Fr("getSequence", "exchange", n, "-", "-"),
       Fr("sendPacketWithResponse", "try", n, "-", "-") >>

\* setPowerOn(on) of the concrete devices: send, then cache the new value
SetPowerOn(on, fn, pw) ==
    << Fr("setPowerOn", "send", 0, on, pw), Fr(fn, "try", 0, "-", "-") >>

\* What a pending call does when the call it awaits settles with (ok, val).
\* stk is the chain of callers, innermost last.  The result is the state of
\* the chain once control reaches the next await or the chain is finished.
RECURSIVE Return(_, _, _, _, _, _, _, _)
Return(stk, lg, pw, fin, ld, mu, ok, val) ==
    IF stk = <<>>
    THEN [stack |-> <<>>, log |-> lg, power |-> pw, fin |-> fin,
          loaded |-> ld, mutated |-> mu,
          res |-> IF ok THEN "ok" ELSE "err"]
    ELSE
      LET f == Last(stk)
          d == Len(stk)
          rest == Front(stk)
      IN CASE f.fn = "connect" ->
                LET r == ConnectOnLoad(ok)
                IN Return(rest, lg, pw,
                          fin \cup {Summary(f, r, d, Len(lg))}, ld, mu, r, "-")
           [] f.fn = "loadCurrentState" ->
                LET lg2 == Append(lg, Ev("lr", ok, "-", d))
                IN Return(rest, lg2, IF ok THEN val ELSE pw,
                          fin \cup {Summary(f, ok, d, Len(lg2))},
                          ld \/ ok, mu, ok, "-")
           [] f.fn = "setPowerOn" ->
                Return(rest, lg, IF ok THEN f.arg ELSE pw,
                       fin \cup {Summary(f, ok, d, Len(lg))},
                       ld, mu \/ ok, ok, "-")
           [] f.fn = "getSequence" ->
                Return(rest, lg, pw, fin \cup {Summary(f, ok, d, Len(lg))},
                       ld, mu, ok, "-")
           [] OTHER ->  \* sendPacket / sendPacketWithResponse awaiting connect()
                LET nxt == SendAfterConnect(f, ok)
                IN IF nxt # <<>>
                   THEN [stack |-> rest \o nxt, log |-> lg, power |-> pw,
                         fin |-> fin, loaded |-> ld, mutated |-> mu,
                         res |-> "none"]
                   ELSE Return(rest, lg, pw,
                               fin \cup {Summary(f, FALSE, d, Len(lg))},
                               ld, mu, FALSE, "-")

\* ------------------------------------------------------------------- Init
\* the fields a device starts with once it is constructed
Fresh ==
    /\ connected = FALSE
    /\ keepAliveInterval = Undefined
    /\ timers = 0
    /\ onConnectionEventHandler = <<>>
    /\ power = Undefined
    /\ caller = IdleCaller
    /\ pings = EmptyBag
    /\ disc = "idle"
    /\ delivered = [h \in HandlerIds |-> 0]
    /\ lastEvent = "none"
    /\ live = <<>>
    /\ dead = {}
    /\ discDone = "no"
    /\ loaded = FALSE
    /\ mutated = FALSE
    /\ ipo = "none"
    /\ closed = FALSE
    /\ packet = None
    /\ decrypted = None
    /\ serializedPacket = None
    /\ deserializer = Undefined

Built(m, nm) ==
    LET this == New(m, nm)
    IN /\ model = this.model
       /\ name = this.name
       /\ deviceType = this.deviceType
       /\ socket = this.socket
       /\ thrown = this.thrown
       /\ nameArg = nm

\* a plug, constructed with a name
Init ==
    /\ Built("T1201", "Desk Lamp")
    /\ Fresh

\* ---------------------------------------------------------------- actions
BoolStr(b) == IF b THEN "true" ELSE "false"
NoCall == "none"
NoDelivery == [h \in HandlerIds |-> 0]

\* what the last step showed is forgotten by the next one: the log of a
\* finished chain, the result of isPowerOn(), the handlers invoked
Busy(b) == [e \in {x \in DOMAIN b : x.stack # <<>>} |-> b[e]]
CallerKept == IF caller.stack = <<>> THEN IdleCaller ELSE caller
Forgotten == caller' = CallerKept /\ pings' = Busy(pings)
\* the chain t goes on as the chain new
Put(t, new) ==
    IF t.who = "caller"
    THEN caller' = new /\ pings' = Busy(pings)
    ELSE /\ caller' = CallerKept
         /\ pings' = (Busy(pings) (-) SetToBag({t})) (+) SetToBag({new})
NoQuery == ipo' = NoCall
NoReport == delivered' = NoDelivery /\ lastEvent' = "none"

\* the socket callback of the constructor runs when the link state changes
Report(c2) ==
    IF c2 # connected
    THEN /\ delivered' = NotifyHandlers(onConnectionEventHandler, c2)
         /\ lastEvent' = BoolStr(c2)
    ELSE NoReport

\* the chain of chain t has run up to its next await, or to its end
Settle(t, R) ==
    /\ Put(t, Chain(t.who, R.stack, R.log, R.res, R.fin))
    /\ power' = R.power
    /\ loaded' = R.loaded
    /\ mutated' = R.mutated

RECURSIVE PingFrames(_)
PingFrames(S) ==
    IF S = {} THEN 0
    ELSE LET e == CHOOSE x \in S : TRUE
         IN Len(e.stack) * CopiesIn(e, pings) + PingFrames(S \ {e})
Frames == Len(caller.stack) + PingFrames(Pings)

\* chain t goes on with the chain stk, waiting on the transport
Start(t, stk, lg) ==
    /\ Frames - Len(t.stack) + Len(stk) <= MaxFrames
    /\ Put(t, Chain(t.who, stk, lg, "none", {}))

CallerReady == caller.stack = <<>> /\ disc = "idle"

\* the caller invokes connect()
ConnectCall ==
    /\ CallerReady
    /\ Start(caller, Connect(0), <<Ev("c", TRUE, "-", 1)>>)
    /\ discDone' = "no"
    /\ NoQuery /\ NoReport
    /\ UNCHANGED <<connected, keepAliveInterval, timers,
                   onConnectionEventHandler, power, disc, live, dead,
                   loaded, mutated>>
    /\ UNCHANGED pureVars
    /\ closed' = FALSE

\* the caller invokes loadCurrentState()
LoadCurrentStateCall ==
    /\ CallerReady
    /\ Start(caller, LoadCurrentState(0), <<Ev("l", TRUE, "-", 1)>>)
    /\ NoQuery /\ NoReport
    /\ UNCHANGED <<connected, keepAliveInterval, timers,
                   onConnectionEventHandler, power, disc, live, dead,
                   discDone, loaded, mutated>>
    /\ UNCHANGED pureVars
    /\ closed' = FALSE

\* the caller invokes setPowerOn(on); the device sends with fn
SetPowerOnCall(on, fn) ==
    /\ CallerReady
    /\ Start(caller, SetPowerOn(on, fn, power), <<>>)
    /\ NoQuery /\ NoReport
    /\ UNCHANGED <<connected, keepAliveInterval, timers,
                   onConnectionEventHandler, power, disc, live, dead,
                   discDone, loaded, mutated>>
    /\ UNCHANGED pureVars
    /\ closed' = FALSE

\* the caller invokes isPowerOn()
IsPowerOnCall ==
    /\ ipo' = IsPowerOn(power)
    /\ Forgotten
    /\ NoReport
    /\ UNCHANGED <<connected, keepAliveInterval, timers,
                   onConnectionEventHandler, power, disc, live, dead,
                   discDone, loaded, mutated>>
    /\ UNCHANGED pureVars
    /\ closed' = FALSE

\* the caller invokes on(event, h)
OnCall(event, h) ==
    /\ Len(onConnectionEventHandler) < MaxHandlers
    /\ onConnectionEventHandler' = On(onConnectionEventHandler, event, h)
    /\ IF onConnectionEventHandler' # onConnectionEventHandler
       THEN /\ live' = IF disc = "idle" THEN Append(live, h) ELSE live
            /\ dead' = dead \ {h}
       ELSE UNCHANGED <<live, dead>>
    /\ Forgotten
    /\ NoQuery /\ NoReport
    /\ UNCHANGED <<connected, keepAliveInterval, timers, power, disc,
                   discDone, loaded, mutated>>
    /\ UNCHANGED pureVars
    /\ closed' = FALSE

\* the caller invokes disconnect(): line 185 starts closing the socket
DisconnectCall ==
    /\ disc = "idle"
    /\ disc' = "closing"
    /\ live' = <<>>
    /\ discDone' = IF caller.stack = <<>> THEN "pending" ELSE "no"
    /\ Forgotten
    /\ NoQuery /\ NoReport
    /\ UNCHANGED <<connected, keepAliveInterval, timers,
                   onConnectionEventHandler, power, dead, loaded, mutated>>
    /\ UNCHANGED pureVars
    /\ closed' = FALSE

\* socket.disconnect() settles; disconnect() runs lines 187-191
CloseCompletes ==
    /\ disc = "closing"
    /\ connected' = SocketDisconnect(connected)
    /\ Report(connected')
    /\ timers' = DisconnectTimers(keepAliveInterval, timers)
    /\ keepAliveInterval' = DisconnectInterval(keepAliveInterval)
    /\ onConnectionEventHandler' = DisconnectHandlers(onConnectionEventHandler)
    /\ dead' = dead \cup Range(onConnectionEventHandler)
    /\ disc' = "idle"
    /\ discDone' = IF discDone = "pending" THEN "yes" ELSE "no"
    /\ Forgotten
    /\ power' = DisconnectPower(power)
    /\ NoQuery
    /\ UNCHANGED <<live, loaded, mutated>>
    /\ UNCHANGED pureVars
    /\ closed' = (connected /\ \A t \in Chains : ~OpenInFlight(t))

\* an interval of line 175 fires and calls getSequence()
TimerFire ==
    /\ timers > 0
    /\ BagCardinality(Busy(pings)) < MaxKA
    /\ Frames + Len(GetSequence(0)) <= MaxFrames
    /\ caller' = CallerKept
    /\ pings' = Busy(pings)
                 (+) SetToBag({Chain("timer", GetSequence(0), <<>>, "none", {})})
    /\ NoQuery /\ NoReport
    /\ UNCHANGED <<connected, keepAliveInterval, timers,
                   onConnectionEventHandler, power, disc, live, dead,
                   discDone, loaded, mutated>>
    /\ UNCHANGED pureVars
    /\ UNCHANGED closed

HasLoad(frames) == \E i \in 1..Len(frames) : frames[i].fn = "loadCurrentState"

\* `await this.socket.connect()` of line 170 settles in chain t
OpenCompletes(t, ok) ==
    LET tk == t
        f == Last(tk.stack)
        d == Len(tk.stack)
        lg1 == Append(tk.log, Ev("o", ok, "-", d))
        r == ConnectOnOpen(f, ok, Len(lg1))
        lg2 == lg1 \o (IF r.timer THEN <<Ev("t", TRUE, "-", d)>> ELSE <<>>)
                   \o (IF HasLoad(r.frames)
                       THEN <<Ev("l", TRUE, "-", d + 1)>> ELSE <<>>)
    IN /\ OpenInFlight(t)
       /\ connected' = SocketConnect(connected, ok)
       /\ Report(connected')
       /\ timers' = IF r.timer THEN timers + 1 ELSE timers
       /\ keepAliveInterval' = IF r.timer THEN "set" ELSE keepAliveInterval
       /\ IF r.frames = <<>>
          THEN Settle(t, Return(Front(tk.stack), lg2, power,
                                {Summary(f, FALSE, d, Len(lg2))},
                                loaded, mutated, FALSE, "-"))
          ELSE /\ Start(t, Front(tk.stack) \o r.frames, lg2)
               /\ UNCHANGED <<power, loaded, mutated>>
       /\ NoQuery
       /\ UNCHANGED <<onConnectionEventHandler, disc, live, dead, discDone>>
       /\ UNCHANGED pureVars
       /\ UNCHANGED closed

OpenSucceeds == \E t \in Chains : timers < MaxTimers /\ OpenCompletes(t, TRUE)
OpenFails == \E t \in Chains : OpenCompletes(t, FALSE)

\* socket.send / socket.sendWaitForResponse of chain t resolves; val is the
\* power the device reports in its response
WriteResolves(t, val) ==
    LET tk == t
        f == Last(tk.stack)
        d == Len(tk.stack)
        lg1 == Append(tk.log, Ev("w", TRUE, f.pc, d))
    IN /\ WriteInFlight(t)
       /\ SocketCanSend(connected)
       /\ Settle(t, Return(Front(tk.stack), lg1, power,
                           {Summary(f, TRUE, d, Len(lg1))},
                           loaded, mutated, TRUE, val))
       /\ NoQuery /\ NoReport
       /\ UNCHANGED <<connected, keepAliveInterval, timers,
                      onConnectionEventHandler, disc, live, dead, discDone>>
       /\ UNCHANGED pureVars
       /\ UNCHANGED closed

\* socket.send / socket.sendWaitForResponse of chain t rejects
WriteRejects(t) ==
    LET tk == t
        f == Last(tk.stack)
        d == Len(tk.stack)
        lg1 == Append(tk.log, Ev("w", FALSE, f.pc, d))
        frames == SendCatch(f, Len(lg1))
        calls == Last(frames).fn = "connect"
        lg2 == IF calls THEN Append(lg1, Ev("c", TRUE, "-", d + 1)) ELSE lg1
    IN /\ WriteInFlight(t)
       /\ IF f.pc = "try"
          THEN /\ Start(t, Front(tk.stack) \o frames, lg2)
               /\ discDone' = IF calls THEN "no" ELSE discDone
               /\ UNCHANGED <<power, loaded, mutated>>
          ELSE /\ Settle(t, Return(Front(tk.stack), lg1, power,
                                   {Summary(f, FALSE, d, Len(lg1))},
                                   loaded, mutated, FALSE, "-"))
               /\ UNCHANGED discDone
       /\ NoQuery /\ NoReport
       /\ UNCHANGED <<connected, keepAliveInterval, timers,
                      onConnectionEventHandler, disc, live, dead>>
       /\ UNCHANGED pureVars
       /\ closed' = IF f.pc = "try" /\ calls THEN FALSE ELSE closed

WriteSucceeds == \E t \in Chains, val \in PowerValues : WriteResolves(t, val)
WriteFails == \E t \in Chains : WriteRejects(t)

\* the transport loses the link and reports it
Drop ==
    /\ connected
    /\ connected' = FALSE
    /\ Report(FALSE)
    /\ Forgotten
    /\ NoQuery
    /\ UNCHANGED <<keepAliveInterval, timers, onConnectionEventHandler, power,
                   disc, live, dead, discDone, loaded, mutated>>
    /\ UNCHANGED pureVars
    /\ UNCHANGED closed

Next ==
    \/ ConnectCall
    \/ LoadCurrentStateCall
    \/ \E on \in PowerValues, fn \in SendFns : SetPowerOnCall(on, fn)
    \/ DisconnectCall
    \/ CloseCompletes
    \/ TimerFire
    \/ OpenSucceeds
    \/ OpenFails
    \/ WriteSucceeds
    \/ WriteFails
    \/ Drop

Spec == Init /\ [][Next]_vars

\* the same program with a caller that also reads the cached power
NextQuery ==
    \/ Next
    \/ IsPowerOnCall

SpecQuery == Init /\ [][NextQuery]_vars

\* a caller that registers connection handlers, connects and disconnects
NextEvents ==
    \/ \E e \in Events, h \in HandlerIds : OnCall(e, h)
    \/ ConnectCall
    \/ DisconnectCall
    \/ CloseCompletes
    \/ TimerFire
    \/ OpenSucceeds
    \/ OpenFails
    \/ WriteSucceeds
    \/ WriteFails
    \/ Drop

SpecEvents == Init /\ [][NextEvents]_vars

\* a caller that never disconnects: no interval is ever cleared
NextNoDisconnect ==
    \/ ConnectCall
    \/ LoadCurrentStateCall
    \/ \E on \in PowerValues, fn \in SendFns : SetPowerOnCall(on, fn)
    \/ TimerFire
    \/ OpenSucceeds
    \/ OpenFails
    \/ WriteSucceeds
    \/ WriteFails
    \/ Drop

SpecNoDisconnect == Init /\ [][NextNoDisconnect]_vars

\* ------------------------------------------- construction and the codec
\* no device has been constructed yet
InitDevice ==
    /\ model = Undefined
    /\ name = Undefined
    /\ deviceType = Undefined
    /\ socket = NoSocket
    /\ nameArg = Undefined
    /\ thrown = NoError
    /\ Fresh

\* `new Device(m, code, ipAddress, nm)`
NewCall(m, nm) ==
    LET this == New(m, nm)
    IN /\ model = Undefined
       /\ model' = this.model
       /\ name' = this.name
       /\ deviceType' = this.deviceType
       /\ socket' = this.socket
       /\ thrown' = this.thrown
       /\ nameArg' = nm
       /\ UNCHANGED <<wireVars, runVars>>

\* the first response of a constructed device arrives and is decoded
Decoded(buf) ==
    LET r == Decode(model, buf)
    IN /\ socket # NoSocket
       /\ decrypted = None
       /\ decrypted' = Some(buf)
       /\ serializedPacket' = r.serializedPacket
       /\ deserializer' = r.deserializer
       /\ thrown' = r.thrown
       /\ UNCHANGED <<objVars, runVars>>

\* an exchange of a concrete device: sendPacketWithResponse() gets buf
ExchangeCall(buf) ==
    /\ Decoded(buf)
    /\ UNCHANGED packet

\* getSequence() with Math.random() = k / (RandomGrain * 3000000) gets buf
GetSequenceCall(k, buf) ==
    /\ Decoded(buf)
    /\ packet' = Some(GetSequencePacket(k))

NextDevice ==
    \/ \E m \in ModelArgs, nm \in NameArgs : NewCall(m, nm)
    \/ \E buf \in Buffers : ExchangeCall(buf)
    \/ \E k \in RandomSamples, buf \in Buffers : GetSequenceCall(k, buf)

SpecDevice == InitDevice /\ [][NextDevice]_vars

TypeOK ==
    /\ connected \in BOOLEAN
    /\ keepAliveInterval \in {"set", Undefined}
    /\ timers \in 0..MaxTimers
    /\ power \in PowerValues \cup {Undefined}
    /\ disc \in {"idle", "closing"}
    /\ discDone \in {"no", "pending", "yes"}
    /\ ipo \in PowerValues \cup {"err", NoCall}
    /\ Len(onConnectionEventHandler) <= MaxHandlers
    /\ Frames <= MaxFrames
    /\ closed \in BOOLEAN
    /\ model \in ModelArgs \cup {Undefined}
    /\ name \in NameArgs \cup {DefaultName(dt) : dt \in {Undefined}}
    /\ socket \in {NoSocket, "TcpSocket"}
    /\ Len(packet) <= 1 /\ Len(decrypted) <= 1 /\ Len(serializedPacket) <= 1
    /\ BagCardinality(pings) <= MaxKA

\* ------------------------------------------------------- reading the logs
\* positions in the log of chain t that belong to the finished call c
Span(c) == (c.start + 1)..c.end
Finished(t, fns) == {c \in t.fin : c.fn \in fns}
\* positions in I of events of kind e
Where(t, I, e) == {i \in I : t.log[i].e = e}
\* positions in I of the writes call c made itself at `at`, with outcome ok
OwnWrite(t, c, at, ok) ==
    {i \in Where(t, Span(c), "w") :
        /\ t.log[i].d = c.d
        /\ t.log[i].at = at
        /\ t.log[i].ok = ok}
\* positions in I of events of kind e made at depth d with outcome ok
Own(t, c, e, d, ok) ==
    {i \in Where(t, Span(c), e) :
        t.log[i].d = d /\ t.log[i].ok = ok}
Failures(t, I) ==
    {i \in Where(t, I, "w") \cup Where(t, I, "o") : ~t.log[i].ok}

\* ------------------------------------------------------------------ claims

\* C1: a sendPacket / sendPacketWithResponse call whose first write and whose
\* retry write both fail rejects, and exactly two writes were attempted on
\* the transport during the whole call.
C1_TwoWritesThenError ==
    \A t \in Chains : \A c \in Finished(t, SendFns) :
        (OwnWrite(t, c, "try", FALSE) # {} /\ OwnWrite(t, c, "retry", FALSE) # {})
        => (~c.ok /\ Cardinality(Where(t, Span(c), "w")) = 2)

\* C2: a sendPacket / sendPacketWithResponse call whose first write fails and
\* whose every later transport operation succeeds resolves, and connect() is
\* invoked exactly once during it, after the failed attempt and before the
\* retry attempt.
C2_RetryOnceAfterReconnect ==
    \A t \in Chains : \A c \in Finished(t, SendFns) :
        LET failed == OwnWrite(t, c, "try", FALSE)
            retry == OwnWrite(t, c, "retry", TRUE)
            calls == Where(t, Span(c), "c")
        IN (failed # {} /\ Failures(t, Span(c)) = failed)
           => /\ c.ok
              /\ Cardinality(calls) = 1
              /\ Cardinality(retry) = 1
              /\ \A i \in failed, j \in calls, k \in retry : i < j /\ j < k

C2_Witness ==
    \E c \in Finished(caller, SendFns) :
        /\ c.ok
        /\ OwnWrite(caller, c, "try", FALSE) # {}
        /\ Failures(caller, Span(c)) = OwnWrite(caller, c, "try", FALSE)

\* C3: no unbounded retry: while every open succeeds and every write fails, a
\* pending sendPacket / sendPacketWithResponse call stays within the
\* retry-once budget of one reconnect (one open) and two writes.
C3_BoundedRetry ==
    \A t \in Chains : \A n \in 1..Len(t.stack) :
        LET f == t.stack[n]
            I == (f.start + 1)..Len(t.log)
        IN (/\ f.fn \in SendFns
            /\ \A i \in Where(t, I, "o") : t.log[i].ok
            /\ \A i \in Where(t, I, "w") : ~t.log[i].ok)
           => /\ Cardinality(Where(t, I, "o")) <= 1
              /\ Cardinality(Where(t, I, "w")) <= 2

\* C4: once disconnect() has completed, no keep-alive round-trip starts until
\* connect() is called again (stated for a caller that does not disconnect
\* while one of its own calls is pending).
C4_NoKeepAliveAfterDisconnect ==
    [][discDone = "yes" =>
         BagCardinality(Busy(pings')) <= BagCardinality(Busy(pings))]_vars

\* C5 as stated: a keep-alive round-trip never calls connect().
C5_KeepAliveNeverReconnects ==
    \A k \in Pings : Where(k, 1..Len(k.log), "c") = {}

\* C5 as amended: a keep-alive round-trip calls connect() exactly once for
\* each failed first attempt of an exchange (the catch branch of
\* sendPacketWithResponse), directly after it, and at no other time.
C5_KeepAliveReconnectsOnlyOnRetry ==
    \A k \in Pings :
        LET lg == k.log
            FailedTry(i) == /\ lg[i].e = "w"
                            /\ ~lg[i].ok
                            /\ lg[i].at = "try"
        IN \A i \in 1..Len(lg) :
              /\ lg[i].e = "c" =>
                    (i > 1 /\ FailedTry(i - 1) /\ lg[i].d = lg[i - 1].d + 1)
              /\ FailedTry(i) => (i < Len(lg) /\ lg[i + 1].e = "c")

C5_Witness ==
    \E k \in Pings :
        /\ Awaiting(k, {"sendPacketWithResponse"}, {"retry"})
        /\ Len(k.stack) = 2
        /\ Where(k, 1..Len(k.log), "c") # {}

\* C6: no keep-alive exchange is in flight on the transport while a
\* foreground exchange is in flight.
C6_ExchangesSerialized ==
    ~(WriteInFlight(caller) /\ \E k \in Pings : WriteInFlight(k))

\* C7: a mutator that fails leaves the cached power as it was when the
\* mutator was called.
C7_FailedMutatorKeepsCache ==
    \A c \in Finished(caller, {"setPowerOn"}) :
        ~c.ok => power = c.before

\* C8: connect() resolves only if its open succeeded and the loadCurrentState()
\* it called succeeded; if its open fails it rejects without starting the
\* interval and without calling loadCurrentState(); if loadCurrentState()
\* fails it rejects.
C8_ConnectResult ==
    \A t \in Chains : \A c \in Finished(t, {"connect"}) :
        /\ c.ok => /\ Own(t, c, "o", c.d, TRUE) # {}
                   /\ Own(t, c, "lr", c.d + 1, TRUE) # {}
        /\ Own(t, c, "o", c.d, FALSE) # {} =>
                   /\ ~c.ok
                   /\ Own(t, c, "t", c.d, TRUE) = {}
                   /\ Own(t, c, "l", c.d + 1, TRUE) = {}
        /\ Own(t, c, "lr", c.d + 1, FALSE) # {} => ~c.ok

C8_Witness ==
    \E c1, c2 \in Finished(caller, {"connect"}) :
        /\ Own(caller, c1, "o", c1.d, FALSE) # {}
        /\ Own(caller, c2, "lr", c2.d + 1, FALSE) # {}
        /\ ~c1.ok /\ ~c2.ok

\* C9: at every connectivity transition every handler registered since the
\* last disconnect() call (with no disconnect pending) is invoked once per
\* registration with the new state; when disconnect() completes the handler
\* list is empty; handlers dropped by a completed disconnect() and not
\* registered again are not invoked by later transitions.
C9_HandlersNotifiedUntilDisconnect ==
    [][/\ connected' # connected =>
            /\ \A h \in Range(live) :
                  delivered'[h] = Count(live, h) /\ lastEvent' = BoolStr(connected')
            /\ \A h \in dead : delivered'[h] = 0
       /\ (disc = "closing" /\ disc' = "idle") => onConnectionEventHandler' = <<>>
      ]_vars

\* a handler is told of the transition made by an automatic reconnect
C9_Witness ==
    /\ \E n \in 1..Len(caller.stack) :
          /\ caller.stack[n].fn \in SendFns
          /\ caller.stack[n].pc = "catch"
    /\ Awaiting(caller, SendFns, {"try"})
    /\ dead # {}
    /\ live # <<>>
    /\ lastEvent = "true"
    /\ \A h \in Range(live) : delivered[h] = 1 /\ h \notin dead

\* C10 as stated: isPowerOn() rejects exactly when the cached power is unknown,
\* which is the case until a loadCurrentState() has succeeded; otherwise it
\* returns the cached power; it changes no state and uses no transport.
C10_UnknownUntilLoaded ==
    /\ [](~loaded => power = Undefined)
    /\ [][ipo' # "none" =>
            /\ ipo' = (IF power = Undefined THEN "err" ELSE power)
            /\ caller'.stack = caller.stack
            /\ Busy(pings') = Busy(pings)
            /\ UNCHANGED <<connected, keepAliveInterval, timers,
                           onConnectionEventHandler, power, disc>>]_vars

\* C10 as amended: the cached power is unknown until a loadCurrentState() or a
\* setPowerOn() has succeeded; the rest as stated.
C10_IsPowerOn ==
    /\ []((~loaded /\ ~mutated) => power = Undefined)
    /\ [][ipo' # "none" =>
            /\ ipo' = (IF power = Undefined THEN "err" ELSE power)
            /\ caller'.stack = caller.stack
            /\ Busy(pings') = Busy(pings)
            /\ UNCHANGED <<connected, keepAliveInterval, timers,
                           onConnectionEventHandler, power, disc>>]_vars

C10_Witness ==
    /\ ipo \in PowerValues
    /\ ~loaded
    /\ mutated

\* C11: a device constructed without a name is named after its category;
\* a device constructed with a name has that name.
C11_DefaultName ==
    socket # NoSocket =>
        name = IF nameArg # Undefined THEN nameArg
               ELSE CASE model \in {"T1201", "T1202", "T1203"} ->
                            "Unnamed Power Plug"
                      [] model = "T1211" -> "Unnamed Switch"
                      [] model \in {"T1011", "T1012", "T1013"} ->
                            "Unnamed Light Bulb"

\* C12: the constructor throws for a model outside the seven known ones and
\* has then created no socket; for a known model it succeeds, with the
\* category of the model.
C12_UnknownModelRejected ==
    model # Undefined =>
        /\ model \notin Models => thrown = UnknownModel /\ socket = NoSocket
        /\ model \in Models =>
              /\ thrown # UnknownModel
              /\ socket # NoSocket
              /\ deviceType \in {"POWER_PLUG", "SWITCH", "LIGHT_BULB"}
              /\ deviceType = "POWER_PLUG" <=>
                    model \in {"T1201", "T1202", "T1203"}
              /\ deviceType = "SWITCH" <=> model = "T1211"
              /\ deviceType = "LIGHT_BULB" <=>
                    model \in {"T1011", "T1012", "T1013"}

C12_Witness ==
    /\ model = "T9999"
    /\ thrown = UnknownModel
    /\ socket = NoSocket

\* C13: disconnect() leaves the cached power as it is, from its call to its
\* completion, so isPowerOn() gives the same value or the same failure before
\* and after it.
C13_DisconnectKeepsCache ==
    [][disc' # disc =>
          /\ power' = power
          /\ IsPowerOn(power') = IsPowerOn(power)]_vars

\* a disconnect() has completed on a device whose power is cached
C13_Witness ==
    /\ discDone = "yes"
    /\ power \in PowerValues

\* the schema the claims give for each model
SchemaOf(m) ==
    CASE m \in {"T1011", "T1012"} -> "T1012Packet"
      [] m = "T1013" -> "T1013Packet"
      [] m \in {"T1201", "T1202", "T1203", "T1211"} -> "T1201Packet"

C18_SchemaByModel ==
    /\ thrown # UnableToDeserialize
    /\ (decrypted # None /\ Len(decrypted[1]) >= 2) =>
            /\ thrown = NoError
            /\ deserializer = SchemaOf(model)

C18_Witness ==
    /\ packet = None
    /\ model = "T1211"
    /\ deserializer = "T1201Packet"

\* C19: with L = byte0 + 256 * byte1 of the decrypted response, the bytes
\* handed to the deserializer are the bytes of the response at the indexes
\* 2 .. 2 + L - 1, and nothing else of it.
C19_Framing ==
    (decrypted # None /\ Len(decrypted[1]) >= 2) =>
        LET buf == decrypted[1]
            L == buf[1] + 256 * buf[2]
            n == Min(L, Len(buf) - 2)
        IN /\ serializedPacket # None
           /\ Len(serializedPacket[1]) = n
           /\ \A i \in 1..n : serializedPacket[1][i] = buf[i + 2]

\* a response with a payload and a trailing byte
C19_Witness ==
    /\ decrypted # None
    /\ Len(decrypted[1]) = 4
    /\ decrypted[1][1] = 1 /\ decrypted[1][2] = 0
    /\ serializedPacket = Some(<<decrypted[1][3]>>)

\* C20 as stated: the sequence number of a ping is in 0 .. 2,999,999.
C20_SequenceBelowRange ==
    packet # None => packet[1].sequence \in 0..(SequenceRange - 1)

\* C20 as amended: the sequence number of a ping is in 0 .. 3,000,000.
C20_SequenceUpToRange ==
    packet # None => packet[1].sequence \in 0..SequenceRange

C20_Witness ==
    /\ packet # None
    /\ packet[1].sequence = SequenceRange

\* C15: at most one keep-alive interval is active at any time.
C15_OneKeepAliveTimer == timers <= 1

\* C16: once disconnect() has completed and the caller calls nothing more,
\* the socket is not opened again and the device stays disconnected (stated
\* for a disconnect() that closes an open socket while no open is pending).
C16_StaysDisconnected ==
    [][(closed /\ ~(caller.stack = <<>> /\ caller'.stack # <<>>)) =>
          /\ ~connected'
          /\ ~OpenInFlight(caller')
          /\ \A t \in BagToSet(pings') : ~OpenInFlight(t)]_vars

\* C17: a connect() that rejects leaves no interval it created behind; with
\* a caller that never disconnects no interval is cleared, so a rejected
\* connect() must have created none.
C17_RejectedConnectLeavesNoTimer ==
    \A t \in Chains : \A c \in Finished(t, {"connect"}) :
        ~c.ok => Own(t, c, "t", c.d, TRUE) = {}

====
